---------------------------- MODULE Spec2Model ----------------------------
(***************************************************************************)
(* Rainfall-Prediction-App (src/app.py): a Streamlit script that fetches   *)
(* the current weather of a city, builds the classifier's input row and    *)
(* shows the predicted rainfall.                                           *)
(*                                                                         *)
(* Representation.                                                         *)
(*  - Feature names and direction labels are sequences of one-character    *)
(*    strings, so that Python's `in` (substring) and str.endswith are      *)
(*    computed on the characters as the code computes them.                *)
(*  - A Python dict is a sequence of <<key, value>> pairs in insertion     *)
(*    order; None is the empty sequence where a dict is expected.          *)
(*  - Numbers are fixed point: an angle is held in quarter degrees (so     *)
(*    that 22.5 and the ties 11.25 + 22.5 n are integers), a speed of the  *)
(*    provider in m/s, WindGustSpeed in tenths of km/h (x * 3.6 = 36x/10). *)
(*  - An optional JSON field is <<>> (absent) or <<v>> (present).          *)
(***************************************************************************)
EXTENDS Integers, Sequences, FiniteSets, TLC

VARIABLES
    pc,             \* position of the running call / script run
    city,           \* st.text_input value of this run (app.py:116), or the call's argument
    api_key,        \* st.secrets["OPENWEATHER_API_KEY"] (app.py:120), or the call's argument
    now,            \* wall clock, seconds
    cache,          \* st.cache_data store of fetch_weather_data (app.py:40)
    response,       \* what the provider did with the GET in flight (app.py:52)
    weather_data,   \* first component of fetch_weather_data's return value
    error_message,  \* second component of fetch_weather_data's return value
    fromCache,      \* the return value was served by st.cache_data
    httpRequests,   \* requests.get calls issued by the current call / run
    model_features, \* data['features'] of the model artifact (app.py:26,31)
    input_df,       \* the one-row DataFrame given to the classifier (app.py:152)
    prediction,     \* model.predict(input_df)[0] (app.py:155)
    probability,    \* model.predict_proba(input_df)[0][1], percent (app.py:156)
    predictCalls,   \* model.predict calls of the current run
    probaCalls,     \* model.predict_proba calls of the current run
    shown,          \* what the run has rendered last
    clicked,        \* st.button returned True in this run (app.py:142)
    buttonShown,    \* the previous run rendered the button
    steps,          \* the pipeline steps of the current run, in order
    degrees,        \* argument of a direct degrees_to_cardinal call, quarter degrees
    label           \* its result

vars == << pc, city, api_key, now, cache, response, weather_data, error_message,
           fromCache, httpRequests, model_features, input_df, prediction,
           probability, predictCalls, probaCalls, shown, clicked, buttonShown,
           steps, degrees, label >>

fetchVars == << city, api_key, now, cache, response, weather_data, error_message,
                fromCache, httpRequests >>
handlerVars == << model_features, input_df, prediction, probability, predictCalls,
                  probaCalls >>
uiVars == << shown, clicked, buttonShown, steps >>
cardinalVars == << degrees, label >>

-----------------------------------------------------------------------------
(* Bounds of the model.                                                    *)

\* direct degrees_to_cardinal calls take every quarter degree in
\* -MaxDegrees .. MaxDegrees (negative angles and angles of 360 or more)
MaxDegrees == 800
\* periodicity is compared over d + 360 k, k in -MaxTurns .. MaxTurns
MaxTurns == 3
\* the clock advances in steps of TickStep seconds up to MaxTime
TickStep == 300
MaxTime == 900

-----------------------------------------------------------------------------
(* Strings.                                                                *)

None == << >>
NoLabel == << >>

Range(s) == { s[i] : i \in 1..Len(s) }

\* str.endswith(suffix)
EndsWith(s, suffix) ==
    /\ Len(suffix) <= Len(s)
    /\ SubSeq(s, Len(s) - Len(suffix) + 1, Len(s)) = suffix

\* sub in s
Contains(s, sub) ==
    \E i \in 1..(Len(s) - Len(sub) + 1) : SubSeq(s, i, i + Len(sub) - 1) = sub

\* Python dicts as sequences of << key, value >> pairs
DictKeys(d) == [i \in 1..Len(d) |-> d[i][1]]
DictHas(d, k) == \E i \in 1..Len(d) : d[i][1] = k
DictGet(d, k) == d[CHOOSE i \in 1..Len(d) : d[i][1] = k][2]

WindGustDir_ == <<"W","i","n","d","G","u","s","t","D","i","r","_">>
K_WindGustDir == <<"W","i","n","d","G","u","s","t","D","i","r">>
K_MinTemp == <<"M","i","n","T","e","m","p">>
K_MaxTemp == <<"M","a","x","T","e","m","p">>
K_WindGustSpeed == <<"W","i","n","d","G","u","s","t","S","p","e","e","d">>
K_Humidity == <<"H","u","m","i","d","i","t","y">>
K_Pressure == <<"P","r","e","s","s","u","r","e">>
K_Temp == <<"T","e","m","p">>
\* a name the observation has no attribute for (a column of the training data)
K_Rainfall == <<"R","a","i","n","f","a","l","l">>

-----------------------------------------------------------------------------
(* degrees_to_cardinal (app.py:34-38).                                     *)

dirs == << <<"N">>, <<"N","N","E">>, <<"N","E">>, <<"E","N","E">>,
           <<"E">>, <<"E","S","E">>, <<"S","E">>, <<"S","S","E">>,
           <<"S">>, <<"S","S","W">>, <<"S","W">>, <<"W","S","W">>,
           <<"W">>, <<"W","N","W">>, <<"N","W">>, <<"N","N","W">> >>

\* int() alone: the quotient truncated toward zero
PyRoundTrunc(num, den) ==
    IF num >= 0 THEN num \div den ELSE -((-num) \div den)

\* Python 3 round() of the quotient num / den (den > 0): to the nearest integer,
\* a tie to the even one.  \div is the floor and % the non-negative remainder.
PyRound(num, den) ==
    LET q == num \div den
        r == num % den
    IN  IF 2 * r < den THEN q
        ELSE IF 2 * r > den THEN q + 1
        ELSE IF q % 2 = 0 THEN q ELSE q + 1

\* d4 is the angle in quarter degrees: d / (360. / len(dirs)) = d4 / (1440 / 16)
degrees_to_cardinal(d4) ==
    LET ix == PyRound(d4, (360 * 4) \div Len(dirs))
    IN  dirs[(ix % Len(dirs)) + 1]

-----------------------------------------------------------------------------
(* Defaults of the variables a specification does not use.                 *)

NoMsg == [kind |-> "None", city |-> "", status |-> 0]
NoBody == [json |-> FALSE, temp_min |-> << >>, temp_max |-> << >>,
           humidity |-> << >>, pressure |-> << >>, temp |-> << >>,
           hasWind |-> FALSE, gust |-> << >>, speed |-> << >>, deg |-> << >>]

NoResponse == [kind |-> "none", status |-> 0, body |-> NoBody]

FetchIdle ==
    /\ city = "" /\ api_key = "" /\ now = 0 /\ cache = {}
    /\ response = NoResponse /\ weather_data = None /\ error_message = NoMsg
    /\ fromCache = FALSE /\ httpRequests = 0
HandlerIdle ==
    /\ model_features = << >> /\ input_df = None /\ prediction = -1
    /\ probability = -1 /\ predictCalls = 0 /\ probaCalls = 0
UiIdle ==
    /\ shown = "none" /\ clicked = FALSE /\ buttonShown = FALSE /\ steps = << >>
CardinalIdle ==
    /\ degrees = 0 /\ label = NoLabel

-----------------------------------------------------------------------------
(* fetch_weather_data (app.py:40-74).                                      *)

TTL == 600

Msg(kind, c, status) == [kind |-> kind, city |-> c, status |-> status]

\* the (weather_details, error) pair the function returns
Result(data, err) == [data |-> data, err |-> err]

\* the two lookups in the other order: speed preferred to gust
SelectedSpeedSwapped(body) ==
    IF body.hasWind /\ body.speed # << >> THEN body.speed[1]
    ELSE IF body.hasWind /\ body.gust # << >> THEN body.gust[1]
    ELSE 0

\* data.get('wind', {}).get('gust', data.get('wind', {}).get('speed', 0)), m/s
SelectedSpeed(body) ==
    IF body.hasWind /\ body.gust # << >> THEN body.gust[1]
    ELSE IF body.hasWind /\ body.speed # << >> THEN body.speed[1]
    ELSE 0

\* data.get('wind', {}).get('deg', 0), quarter degrees
SelectedDeg(body) ==
    IF body.hasWind /\ body.deg # << >> THEN body.deg[1] ELSE 0

\* data['main'][k] raises KeyError when the field is absent
MainComplete(body) ==
    /\ body.temp_min # << >> /\ body.temp_max # << >> /\ body.humidity # << >>
    /\ body.pressure # << >> /\ body.temp # << >>

\* the dict literal of app.py:56-64, in its key order (x * 3.6 in tenths: 36 x)
weather_details(body) ==
    << << K_MinTemp, body.temp_min[1] >>,
       << K_MaxTemp, body.temp_max[1] >>,
       << K_WindGustSpeed, SelectedSpeed(body) * 36 >>,
       << K_Humidity, body.humidity[1] >>,
       << K_Pressure, body.pressure[1] >>,
       << K_Temp, body.temp[1] >>,
       << K_WindGustDir, degrees_to_cardinal(SelectedDeg(body)) >> >>

\* requests' Response.raise_for_status raises HTTPError for 400 <= status < 600
RaisesForStatus(status) == 400 <= status /\ status < 600

\* app.py:52-74 once requests.get has come back: resp.kind is "neterror" when it
\* raised (connection refused, DNS, ...), "http" when it returned a response
HandleResponse(c, resp) ==
    IF resp.kind = "neterror" THEN Result(None, Msg("UnexpectedError", "", 0))
    ELSE IF RaisesForStatus(resp.status) THEN
        IF resp.status = 401 THEN Result(None, Msg("InvalidCredential", "", 0))
        ELSE IF resp.status = 404 THEN Result(None, Msg("LocationNotFound", c, 0))
        ELSE Result(None, Msg("ProviderError", "", resp.status))
    ELSE IF ~resp.body.json THEN Result(None, Msg("UnexpectedError", "", 0))
    ELSE IF ~MainComplete(resp.body) THEN Result(None, Msg("UnexpectedError", "", 0))
    ELSE Result(weather_details(resp.body), NoMsg)

\* st.cache_data(ttl=600): the stored return value of the same arguments, while
\* the clock is before the entry's expiry
CacheHits(c, k) ==
    { e \in cache : e.city = c /\ e.api_key = k /\ now < e.expires }

CacheStore(c, k, value) ==
    { e \in cache : ~(e.city = c /\ e.api_key = k) }
        \cup { [city |-> c, api_key |-> k, value |-> value, expires |-> now + TTL] }

\* the credential test left out
MissingCredentialUnchecked(c, k) == FALSE

\* app.py:43-46
MissingCredential(c, k) == k = ""

MissingLocation(c, k) == c = ""

\* a call fetch_weather_data(c, k), up to its return or up to the GET of
\* app.py:52, whose outcome `resp` is the provider's ("hung": it never answers)
Fetch(c, k, resp) ==
    IF CacheHits(c, k) # {} THEN
        LET e == CHOOSE e \in CacheHits(c, k) : TRUE
        IN  /\ weather_data' = e.value.data
            /\ error_message' = e.value.err
            /\ fromCache' = TRUE
            /\ pc' = "fetched"
            /\ UNCHANGED << cache, response, httpRequests >>
    ELSE IF MissingCredential(c, k) \/ MissingLocation(c, k) THEN
        LET err == IF MissingCredential(c, k)
                   THEN Msg("MissingCredential", "", 0)
                   ELSE Msg("MissingLocation", "", 0)
        IN  /\ weather_data' = None
            /\ error_message' = err
            /\ cache' = CacheStore(c, k, Result(None, err))
            /\ fromCache' = FALSE
            /\ pc' = "fetched"
            /\ UNCHANGED << response, httpRequests >>
    ELSE
        /\ httpRequests' = httpRequests + 1
        /\ response' = resp
        /\ fromCache' = FALSE
        /\ pc' = "waiting"
        /\ UNCHANGED << cache, weather_data, error_message >>

\* requests.get comes back and the call runs to its return (app.py:53-74)
FetchReturn ==
    /\ pc = "waiting"
    /\ response.kind # "hung"
    /\ LET r == HandleResponse(city, response)
       IN  /\ weather_data' = r.data
           /\ error_message' = r.err
           /\ cache' = CacheStore(city, api_key, r)
    /\ pc' = "fetched"
    /\ UNCHANGED << city, api_key, now, response, fromCache, httpRequests >>

\* time passes between calls and while a GET is in flight
Tick ==
    /\ pc \in {"call", "idle", "waiting"}
    /\ now + TickStep <= MaxTime
    /\ now' = now + TickStep
    /\ UNCHANGED << pc, city, api_key, cache, response, weather_data,
                    error_message, fromCache, httpRequests >>

-----------------------------------------------------------------------------
(* What the provider can do with a GET.                                    *)

Hung == [kind |-> "hung", status |-> 0, body |-> NoBody]
NetError == [kind |-> "neterror", status |-> 0, body |-> NoBody]
Http(status, body) == [kind |-> "http", status |-> status, body |-> body]

\* a JSON body with every field of "main"; the end-to-end values of the spec
Body(hasWind, gust, speed, deg) ==
    [json |-> TRUE, temp_min |-> <<20>>, temp_max |-> <<30>>, humidity |-> <<60>>,
     pressure |-> <<1012>>, temp |-> <<25>>,
     hasWind |-> hasWind, gust |-> gust, speed |-> speed, deg |-> deg]

NoHumidity == [Body(FALSE, << >>, << >>, << >>) EXCEPT !.humidity = << >>]

WideBodies ==
    {NoBody, NoHumidity, Body(FALSE, << >>, << >>, << >>)}
        \cup { Body(TRUE, g, s, d) : g \in {<< >>, <<0>>, <<10>>},
                                      s \in {<< >>, <<5>>},
                                      d \in {<< >>, <<4 * 90>>, <<-4 * 90>>} }

ErrorStatuses == {400, 401, 404, 500}

WideResponses ==
    {Hung, NetError}
        \cup { Http(s, NoBody) : s \in ErrorStatuses }
        \cup { Http(s, b) : s \in {200, 304}, b \in WideBodies }

Cities == {"", "Chandigarh", "Xyz"}
Keys == {"", "key"}

-----------------------------------------------------------------------------
(* Direct calls of fetch_weather_data, repeated with the same arguments    *)
(* as time passes.                                                         *)

FetchInit ==
    /\ pc = "call"
    /\ city \in Cities /\ api_key \in Keys
    /\ now = 0 /\ cache = {}
    /\ response = NoResponse /\ weather_data = None /\ error_message = NoMsg
    /\ fromCache = FALSE /\ httpRequests = 0
    /\ HandlerIdle /\ UiIdle /\ CardinalIdle

FetchCall ==
    /\ pc = "call"
    /\ \E resp \in WideResponses : Fetch(city, api_key, resp)
    /\ UNCHANGED << city, api_key, now, handlerVars, uiVars, cardinalVars >>

FetchDone ==
    /\ FetchReturn
    /\ UNCHANGED << handlerVars, uiVars, cardinalVars >>

FetchTick ==
    /\ Tick
    /\ UNCHANGED << handlerVars, uiVars, cardinalVars >>

\* the caller takes the result and is ready for the next call
FetchAgain ==
    /\ pc = "fetched"
    /\ pc' = "call"
    /\ weather_data' = None /\ error_message' = NoMsg
    /\ response' = NoResponse /\ fromCache' = FALSE /\ httpRequests' = 0
    /\ UNCHANGED << city, api_key, now, cache, handlerVars, uiVars, cardinalVars >>

FetchNext == FetchCall \/ FetchDone \/ FetchTick \/ FetchAgain

SpecFetch == FetchInit /\ [][FetchNext]_vars

\* requests.get is given no timeout: nothing but the provider's answer ends the wait
FairSpecFetch == SpecFetch /\ WF_vars(FetchDone) /\ WF_vars(FetchCall)

\* C2: with an empty credential the call returns the missing-credential error,
\* with a non-empty credential and an empty city the missing-location error, and
\* in both cases no HTTP request is issued and no observation is returned.
C2_Preconditions ==
    /\ (pc = "waiting" => api_key # "" /\ city # "")
    /\ (pc \in {"waiting", "fetched"} /\ (api_key = "" \/ city = "")
            => httpRequests = 0)
    /\ (pc = "fetched" /\ api_key = ""
            => weather_data = None /\ error_message.kind = "MissingCredential")
    /\ (pc = "fetched" /\ api_key # "" /\ city = ""
            => weather_data = None /\ error_message.kind = "MissingLocation")

\* a call with a credential and an empty city has returned the missing-location error
C2_Witness ==
    /\ pc = "fetched" /\ city = "" /\ api_key = "key"
    /\ error_message.kind = "MissingLocation" /\ httpRequests = 0

\* C3: every non-2xx provider response gives no observation and an error
\* classified by status alone: 401 the invalid-credential error, 404 the
\* location-not-found error naming the queried city, every other status the
\* provider error carrying the status; never the unexpected-error kind or success.
C3_NonSuccessClassified ==
    pc = "fetched" /\ response.kind = "http"
        /\ (response.status < 200 \/ response.status >= 300)
    => /\ weather_data = None
       /\ error_message =
            CASE response.status = 401 -> Msg("InvalidCredential", "", 0)
              [] response.status = 404 -> Msg("LocationNotFound", city, 0)
              [] OTHER -> Msg("ProviderError", "", response.status)

\* C5: every fetch eventually returns, also when the provider never answers
\* the GET.
C5_FetchReturns == (pc = "waiting") ~> (pc = "fetched")

\* C8: on a successful response WindGustSpeed is 3.6 times the provider's gust if
\* the gust field is present, otherwise 3.6 times its wind speed if that field
\* is present, otherwise 0 (also without a wind object); gust = 10 m/s gives
\* 36.0 km/h, speed = 5 m/s with no gust gives 18.0 km/h.
C8_WindGustSpeed ==
    pc = "fetched" /\ response.kind = "http" /\ weather_data # None
    => LET b == response.body
           gust == IF b.hasWind THEN b.gust ELSE << >>
           speed == IF b.hasWind THEN b.speed ELSE << >>
           kmh10 == DictGet(weather_data, K_WindGustSpeed)
       IN  /\ (gust # << >> => kmh10 = 36 * gust[1])
           /\ (gust = << >> /\ speed # << >> => kmh10 = 36 * speed[1])
           /\ (gust = << >> /\ speed = << >> => kmh10 = 0)
           /\ (gust = <<10>> => kmh10 = 360)
           /\ (gust = << >> /\ speed = <<5>> => kmh10 = 180)

\* a response with a wind speed of 5 m/s and no gust has given 18.0 km/h
C8_Witness ==
    /\ pc = "fetched" /\ response.kind = "http" /\ response.status = 200
    /\ response.body.hasWind /\ response.body.gust = << >>
    /\ response.body.speed = <<5>>
    /\ weather_data # None
    /\ DictGet(weather_data, K_WindGustSpeed) = 180

-----------------------------------------------------------------------------
(* The predict button handler (app.py:142-169).                            *)

\* input_data.pop(k)
DictPop(d, k) == SelectSeq(d, LAMBDA kv : kv[1] # k)

\* input_data[k] = v: in place when the key exists, appended otherwise
DictSet(d, k, v) ==
    IF DictHas(d, k)
    THEN [i \in 1..Len(d) |-> IF d[i][1] = k THEN << k, v >> ELSE d[i]]
    ELSE Append(d, << k, v >>)

\* 'WindGustDir_' in feature
IsWindColumn(feature) == Contains(feature, WindGustDir_)

\* 1 if feature.endswith(wind_dir) else 0
WindFlag(feature, wind_dir) == IF EndsWith(feature, wind_dir) THEN 1 ELSE 0

\* the loop of app.py:148-150 over features[i..]
RECURSIVE OneHot(_, _, _, _)
OneHot(input_data, wind_dir, features, i) ==
    IF i > Len(features) THEN input_data
    ELSE IF IsWindColumn(features[i])
         THEN OneHot(DictSet(input_data, features[i],
                             WindFlag(features[i], wind_dir)),
                     wind_dir, features, i + 1)
         ELSE OneHot(input_data, wind_dir, features, i + 1)

\* app.py:145-150
PrepareInput(data, features) ==
    OneHot(DictPop(data, K_WindGustDir), DictGet(data, K_WindGustDir), features, 1)

\* pd.DataFrame([input_data])[model_features] raises KeyError when a name of
\* model_features is no column
MissingColumns(input_data, features) ==
    { i \in 1..Len(features) : ~DictHas(input_data, features[i]) }

\* pd.DataFrame([input_data]) without the column selection
UnselectedColumns(input_data, features) == input_data

\* pd.DataFrame([input_data])[model_features]: the columns named, in that order
SelectColumns(input_data, features) ==
    [i \in 1..Len(features) |-> << features[i], DictGet(input_data, features[i]) >>]

\* app.py:143-152; the KeyError of app.py:152 is caught nowhere in the script:
\* the run ends there
Build ==
    /\ pc = "handler"
    /\ steps' = Append(steps, "build")
    /\ LET input_data == PrepareInput(weather_data, model_features)
       IN  IF MissingColumns(input_data, model_features) # {}
           THEN /\ shown' = "uncaught_exception"
                /\ pc' = "idle"
                /\ UNCHANGED input_df
           ELSE /\ input_df' = SelectColumns(input_data, model_features)
                /\ pc' = "predict"
                /\ UNCHANGED shown
    /\ UNCHANGED << fetchVars, model_features, prediction, probability,
                    predictCalls, probaCalls, clicked, buttonShown, cardinalVars >>

\* app.py:155-156; the classifier is a black box of the model artifact
Predict ==
    /\ pc = "predict"
    /\ steps' = Append(steps, "predict")
    /\ prediction' \in {0, 1}
    /\ predictCalls' = predictCalls + 1
    /\ probability' \in {27, 73}
    /\ probaCalls' = probaCalls + 1
    /\ pc' = "render"
    /\ UNCHANGED << fetchVars, model_features, input_df, shown, clicked,
                    buttonShown, cardinalVars >>

\* app.py:159-169
Render ==
    /\ pc = "render"
    /\ steps' = Append(steps, "render")
    /\ shown' = IF prediction = 1 THEN "rain_likely" ELSE "rain_not_expected"
    /\ pc' = "idle"
    /\ UNCHANGED << fetchVars, handlerVars, clicked, buttonShown, cardinalVars >>

-----------------------------------------------------------------------------
(* Feature lists a model artifact can declare (data['features']).          *)

WindColumn(d) == WindGustDir_ \o d

Numerics == << K_MinTemp, K_MaxTemp, K_WindGustSpeed, K_Humidity, K_Pressure,
               K_Temp >>

WindColumns == [i \in 1..Len(dirs) |-> WindColumn(dirs[i])]

\* the six attributes, then one column per label
FullFeatures == Numerics \o WindColumns

\* the wind columns first, the attributes in another order, Temp not trained on
ReorderedFeatures ==
    WindColumns \o << K_Pressure, K_Humidity, K_WindGustSpeed, K_MaxTemp, K_MinTemp >>

\* the first dummy column dropped at training time
DropFirstFeatures == Numerics \o Tail(WindColumns)

\* a training column the observation has no attribute for
RainfallFeatures == << K_MinTemp, K_MaxTemp, K_Rainfall >> \o WindColumns

FeatureLists ==
    {FullFeatures, ReorderedFeatures, DropFirstFeatures, RainfallFeatures}

\* the observations fetch_weather_data returns for the 16 sector centres
Observations ==
    { weather_details(Body(TRUE, g, << >>, << (i - 1) * 90 >>)) :
        g \in {<< >>, <<10>>}, i \in 1..Len(dirs) }

-----------------------------------------------------------------------------
(* The handler alone, from the state a run is in at app.py:143.            *)

BuildInit ==
    /\ pc = "handler"
    /\ city = "Chandigarh" /\ api_key = "key" /\ now = 0 /\ cache = {}
    /\ response = NoResponse
    /\ weather_data \in Observations /\ error_message = NoMsg
    /\ fromCache = FALSE /\ httpRequests = 1
    /\ model_features \in FeatureLists
    /\ input_df = None /\ prediction = -1 /\ probability = -1
    /\ predictCalls = 0 /\ probaCalls = 0
    /\ shown = "weather" /\ clicked = TRUE /\ buttonShown = TRUE
    /\ steps = <<"fetch">>
    /\ CardinalIdle

BuildNext == Build \/ Predict \/ Render

SpecBuild == BuildInit /\ [][BuildNext]_vars

\* the direction part of a wind-direction column's name
Suffix(feature) == SubSeq(feature, Len(WindGustDir_) + 1, Len(feature))

\* model_features holds one 'WindGustDir_<label>' column per label
OneColumnPerLabel(features) ==
    \A j \in 1..Len(dirs) :
        Cardinality({ i \in 1..Len(features) : features[i] = WindColumn(dirs[j]) }) = 1

\* C1: for an observation whose WindGustDir is one of the 16 labels and a feature
\* list with one 'WindGustDir_<label>' column per label, a wind-direction column
\* of the built vector is 1 exactly when its direction suffix equals the
\* observation's WindGustDir and 0 otherwise, so these columns sum to exactly 1.
C1_OneHot ==
    input_df # None /\ OneColumnPerLabel(model_features)
        /\ DictGet(weather_data, K_WindGustDir) \in Range(dirs)
    => LET wind_dir == DictGet(weather_data, K_WindGustDir)
           ones == { i \in 1..Len(input_df) :
                        IsWindColumn(input_df[i][1]) /\ input_df[i][2] = 1 }
       IN  /\ \A i \in 1..Len(input_df) :
                 IsWindColumn(input_df[i][1]) =>
                     input_df[i][2] =
                         IF Suffix(input_df[i][1]) = wind_dir THEN 1 ELSE 0
           /\ Cardinality(ones) = 1

\* C4: the vector given to the predictor has exactly the names of the model
\* feature list, in its order: no name is missing, no other key of the
\* observation (WindGustDir, an attribute not trained on) is present, and
\* position i holds the value of the list's i-th name.
C4_VectorMatchesFeatures ==
    predictCalls > 0 =>
        /\ DictKeys(input_df) = model_features
        /\ \A i \in 1..Len(model_features) :
              /\ input_df[i][1] = model_features[i]
              /\ (~IsWindColumn(model_features[i]) =>
                     /\ DictHas(weather_data, model_features[i])
                     /\ input_df[i][2] = DictGet(weather_data, model_features[i]))
              /\ (IsWindColumn(model_features[i]) => input_df[i][2] \in {0, 1})
        /\ \A i \in 1..Len(input_df) :
              /\ input_df[i][1] # K_WindGustDir
              /\ input_df[i][1] \in Range(model_features)

\* the classifier has been given a vector for a feature list whose order differs
\* from the observation's and that leaves Temp out
C4_Witness ==
    /\ predictCalls = 1
    /\ model_features = ReorderedFeatures
    /\ DictKeys(input_df) = ReorderedFeatures
    /\ DictHas(weather_data, K_Temp)

\* model_features names a non-wind-direction feature the observation has no
\* attribute for
UnknownFeature ==
    \E i \in 1..Len(model_features) :
        /\ ~IsWindColumn(model_features[i])
        /\ ~DictHas(weather_data, model_features[i])

\* C6: when the feature list names a non-wind-direction feature the observation
\* has no attribute for, feature building fails, the failure is caught in the
\* run and shown as an error message, and the classifier is not invoked: the
\* failure does not leave the run uncaught.
C6_UnknownFeatureCaught ==
    "build" \in Range(steps) /\ weather_data # None /\ UnknownFeature
    => /\ predictCalls = 0 /\ probaCalls = 0
       /\ shown # "uncaught_exception"
       /\ (pc = "idle" => shown = "error")

-----------------------------------------------------------------------------
(* The script (app.py:110-171): Streamlit runs it top to bottom on every   *)
(* user interaction.                                                       *)

\* st.secrets has no OPENWEATHER_API_KEY entry (app.py:121)
NoSecret == "<KeyError>"

\* the error test left out
HasErrorNever(err) == FALSE

\* `if error_message:` (app.py:129)
HasError(err) == err # NoMsg

\* what the provider does with a GET of the app
AppResponses ==
    {Hung, NetError, Http(404, NoBody),
     Http(200, Body(TRUE, << >>, <<5>>, <<4 * 90>>))}

AppFeatureLists == {FullFeatures, RainfallFeatures}

Init ==
    /\ pc = "idle"
    /\ city = "" /\ api_key \in Keys \cup {NoSecret}
    /\ now = 0 /\ cache = {}
    /\ response = NoResponse /\ weather_data = None /\ error_message = NoMsg
    /\ fromCache = FALSE /\ httpRequests = 0
    /\ model_features \in AppFeatureLists
    /\ input_df = None /\ prediction = -1 /\ probability = -1
    /\ predictCalls = 0 /\ probaCalls = 0
    /\ UiIdle /\ CardinalIdle

\* a user interaction starts a run: the text input holds c, the button (if the
\* last run rendered it) was pressed or not; app.py:116-123
Rerun(c, press) ==
    /\ pc = "idle"
    /\ press => buttonShown
    /\ city' = c
    /\ clicked' = press
    /\ buttonShown' = FALSE
    /\ steps' = << >>
    /\ weather_data' = None /\ error_message' = NoMsg /\ response' = NoResponse
    /\ fromCache' = FALSE /\ httpRequests' = 0
    /\ input_df' = None /\ prediction' = -1 /\ probability' = -1
    /\ predictCalls' = 0 /\ probaCalls' = 0
    /\ IF api_key = NoSecret
       THEN shown' = "error" /\ pc' = "idle"
       ELSE shown' = "none" /\ pc' = "main"
    /\ UNCHANGED << api_key, now, cache, model_features, cardinalVars >>

\* app.py:126-127 and 170-171
Main ==
    /\ pc = "main"
    /\ IF city # ""
       THEN /\ \E resp \in AppResponses : Fetch(city, api_key, resp)
            /\ steps' = Append(steps, "fetch")
            /\ UNCHANGED shown
       ELSE /\ shown' = "info"
            /\ pc' = "idle"
            /\ UNCHANGED << cache, response, weather_data, error_message,
                            fromCache, httpRequests, steps >>
    /\ UNCHANGED << city, api_key, now, handlerVars, clicked, buttonShown,
                    cardinalVars >>

FetchReturns ==
    /\ FetchReturn
    /\ UNCHANGED << handlerVars, uiVars, cardinalVars >>

\* app.py:129-142
AfterFetch ==
    /\ pc = "fetched"
    /\ IF HasError(error_message)
       THEN /\ shown' = "error"
            /\ pc' = "idle"
            /\ UNCHANGED buttonShown
       ELSE IF weather_data # None
       THEN /\ shown' = "weather"
            /\ buttonShown' = TRUE
            /\ pc' = IF clicked THEN "handler" ELSE "idle"
       ELSE /\ pc' = "idle"
            /\ UNCHANGED << shown, buttonShown >>
    /\ UNCHANGED << fetchVars, handlerVars, clicked, steps, cardinalVars >>

TimePasses ==
    /\ Tick
    /\ UNCHANGED << handlerVars, uiVars, cardinalVars >>

Next ==
    \/ \E c \in Cities, press \in BOOLEAN : Rerun(c, press)
    \/ Main
    \/ FetchReturns
    \/ AfterFetch
    \/ Build
    \/ Predict
    \/ Render
    \/ TimePasses

Spec == Init /\ [][Next]_vars

IsPrefix(s, t) == Len(s) <= Len(t) /\ SubSeq(t, 1, Len(s)) = s

\* C9: in every run the steps occur only in the order fetch, build, predict,
\* render; the classifier is invoked at most once, and only in a run where the
\* city is non-empty, the fetch of that run returned an observation with no
\* error, and the button was pressed; when the fetch returns an error the error
\* message is shown and neither feature building nor prediction happens.
C9_PipelineOrder ==
    /\ IsPrefix(steps, <<"fetch", "build", "predict", "render">>)
    /\ predictCalls <= 1 /\ probaCalls <= 1
    /\ (predictCalls > 0 \/ probaCalls > 0 =>
            /\ city # "" /\ clicked
            /\ weather_data # None /\ error_message = NoMsg
            /\ IsPrefix(<<"fetch", "build", "predict">>, steps))
    /\ (error_message # NoMsg =>
            /\ steps = <<"fetch">>
            /\ predictCalls = 0 /\ probaCalls = 0 /\ input_df = None
            /\ (pc = "idle" => shown = "error"))

\* a run has gone through all four steps and shown a prediction
C9_Witness ==
    /\ pc = "idle"
    /\ steps = <<"fetch", "build", "predict", "render">>
    /\ predictCalls = 1 /\ clicked /\ shown = "rain_likely"

\* C10: the fetch cache serves only successful observations: after a failed
\* fetch a re-trigger for the same city and credential queries the provider
\* anew instead of returning the stored failure; a stored observation is
\* returned only for the same city and credential, within 600 seconds of the
\* query that produced it.
C10_CacheServesObservationsOnly ==
    /\ (pc = "fetched" /\ error_message.kind \in
            {"InvalidCredential", "LocationNotFound", "ProviderError",
             "UnexpectedError"}
        => ~fromCache /\ httpRequests = 1)
    /\ (pc = "fetched" /\ fromCache =>
            \E e \in cache :
                /\ e.city = city /\ e.api_key = api_key
                /\ e.value = Result(weather_data, error_message)
                /\ now < e.expires /\ e.expires <= now + TTL)

-----------------------------------------------------------------------------
(* Direct calls of degrees_to_cardinal.                                    *)

CardinalInit ==
    /\ pc = "cardinal_call"
    /\ degrees \in (-4 * MaxDegrees)..(4 * MaxDegrees)
    /\ label = NoLabel
    /\ FetchIdle /\ HandlerIdle /\ UiIdle

CardinalCall ==
    /\ pc = "cardinal_call"
    /\ label' = degrees_to_cardinal(degrees)
    /\ pc' = "cardinal_ret"
    /\ UNCHANGED << degrees, fetchVars, handlerVars, uiVars >>

CardinalNext == CardinalCall

SpecCardinal == CardinalInit /\ [][CardinalNext]_vars

\* C7: degrees_to_cardinal returns the label at index n modulo 16 (non-negative
\* modulo) for an integer n nearest to d / 22.5, always one of the 16 labels;
\* cardinal(0) = N, cardinal(45) = NE, cardinal(180) = S; and
\* cardinal(d) = cardinal(d + 360 k) for every integer k.
C7_Cardinal ==
    pc = "cardinal_ret" =>
        /\ label \in Range(dirs)
        /\ \E n \in (-MaxDegrees)..MaxDegrees :
              /\ 2 * (degrees - 90 * n) <= 90
              /\ 2 * (90 * n - degrees) <= 90
              /\ label = dirs[(n % 16) + 1]
        /\ (degrees = 0 => label = <<"N">>)
        /\ (degrees = 4 * 45 => label = <<"N","E">>)
        /\ (degrees = 4 * 180 => label = <<"S">>)
        /\ \A k \in (-MaxTurns)..MaxTurns :
              degrees_to_cardinal(degrees + 4 * 360 * k) = label

\* a negative angle off the sector centres has been encoded
C7_Witness ==
    /\ pc = "cardinal_ret"
    /\ degrees = -4 * 100
    /\ label = <<"W">>

=============================================================================
